---- MODULE Spec2Model ----
\* Model of the Freeplane MCP server's dispatch layer (src/python/server.py):
\* FreeplaneClient (the bridge transport), list_tools (the catalog) and
\* call_tool (the dispatcher with its composite font-formatting expansion).
EXTENDS Integers, Sequences, FiniteSets, TLC

\* ------------------------------------------------------------------ bounds

\* Number of call_tool invocations a host may have in progress at once.
NumTasks == 2

Tasks == 1..NumTasks

\* ------------------------------------------------------- JSON / Python values
\* Every JSON value is one record shape: k is the kind, f the members of an
\* object, l the elements of a list, s the text of a string, number or boolean.

EmptyMap == [x \in {} |-> ""]

JNull == [k |-> "null", f |-> EmptyMap, l |-> <<>>, s |-> ""]

JBool(b) == [k |-> "bool", f |-> EmptyMap, l |-> <<>>, s |-> IF b THEN "true" ELSE "false"]

JNum(digits) == [k |-> "num", f |-> EmptyMap, l |-> <<>>, s |-> digits]

JStr(text) == [k |-> "str", f |-> EmptyMap, l |-> <<>>, s |-> text]

JList(elems) == [k |-> "list", f |-> EmptyMap, l |-> elems, s |-> ""]

JObj(members) == [k |-> "obj", f |-> members, l |-> <<>>, s |-> ""]

\* Python's truth value of a decoded JSON value (bool(x)).
Truthy(x) ==
  CASE x.k = "null" -> FALSE
    [] x.k = "bool" -> x.s = "true"
    [] x.k = "num"  -> x.s # "0"
    [] x.k = "str"  -> x.s # ""
    [] x.k = "list" -> x.l # <<>>
    [] x.k = "obj"  -> DOMAIN x.f # {}

\* type(x).__name__ of a decoded JSON value.
PyTypeName(x) ==
  CASE x.k = "null" -> "NoneType"
    [] x.k = "bool" -> "bool"
    [] x.k = "num"  -> "int"
    [] x.k = "str"  -> "str"
    [] x.k = "list" -> "list"
    [] x.k = "obj"  -> "dict"

\* The outcome of evaluating a Python expression: a value, or a raised exception.
Ok(v) == [raised |-> FALSE, v |-> v, exc |-> ""]

Raise(msg) == [raised |-> TRUE, v |-> JNull, exc |-> msg]

\* sub in s, for two str values.
Contains(sub, s) ==
  \E i \in 1..(Len(s) - Len(sub) + 1) : SubSeq(s, i, i + Len(sub) - 1) = sub

\* key in x: membership of the keys of a dict, of the elements of a list, substring
\* of a str; TypeError for None, bool and int.
PyIn(key, x) ==
  CASE x.k = "obj"  -> Ok(JBool(key \in DOMAIN x.f))
    [] x.k = "list" -> Ok(JBool(\E i \in 1..Len(x.l) : x.l[i] = JStr(key)))
    [] x.k = "str"  -> Ok(JBool(Contains(key, x.s)))
    [] OTHER -> Raise("argument of type '" \o PyTypeName(x) \o "' is not iterable")

\* x.get(key): dict.get, None for an absent key; AttributeError on anything else.
PyGet(x, key) ==
  IF x.k = "obj"
  THEN Ok(IF key \in DOMAIN x.f THEN x.f[key] ELSE JNull)
  ELSE Raise("'" \o PyTypeName(x) \o "' object has no attribute 'get'")

\* x[key] with a str key.
PyItem(x, key) ==
  CASE x.k = "obj" ->
         IF key \in DOMAIN x.f THEN Ok(x.f[key]) ELSE Raise("'" \o key \o "'")
    [] x.k = "list" -> Raise("list indices must be integers or slices, not str")
    [] x.k = "str"  -> Raise("string indices must be integers, not 'str'")
    [] OTHER -> Raise("'" \o PyTypeName(x) \o "' object is not subscriptable")

\* ------------------------------------------------------------ configuration

BRIDGE_HOST == "localhost"

BRIDGE_PORT == 8765

BRIDGE_URL == "http://" \o BRIDGE_HOST \o ":" \o ToString(BRIDGE_PORT)

Timeout == 10

\* FreeplaneClient.__init__: the process-wide client, built once at import.
FreeplaneClient == [base_url |-> BRIDGE_URL, timeout |-> Timeout]

\* ------------------------------------------------------------ the bridge
\* What one HTTP round trip can end in: a requests.RequestException (connection
\* refused, timeout, a body that is not JSON: requests raises its own
\* JSONDecodeError, a RequestException), or a decoded JSON body of any shape.

TransportFailures ==
  { [kind |-> "refused", desc |-> "Connection refused", json |-> JNull],
    [kind |-> "timeout", desc |-> "Read timed out", json |-> JNull],
    [kind |-> "malformed", desc |-> "Expecting value", json |-> JNull] }

Response(j) == [kind |-> "ok", desc |-> "", json |-> j]

ObjectBodies ==
  { JObj("success" :> JBool(TRUE)),
    JObj(("success" :> JBool(FALSE)) @@ ("error" :> JStr("Node not found"))),
    JObj("error" :> JStr("Missing required parameter")),
    JObj("success" :> JStr("yes")),
    JObj("success" :> JNull) }

OtherBodies ==
  { JNull, JNum("5"), JStr("ok"), JStr("success"),
    JList(<<>>), JList(<<JStr("success")>>) }

Outcomes == TransportFailures \cup { Response(j) : j \in ObjectBodies \cup OtherBodies }

\* --------------------------------------------------------- FreeplaneClient

\* Variant: the connection check sent through the execute path.
StatusViaExecute(client) ==
  [method |-> "POST", url |-> client.base_url \o "/execute",
   json |-> JObj(("command" :> JStr("check_connection")) @@ ("params" :> JObj(EmptyMap))),
   timeout |-> client.timeout]

StatusRequest(client) ==
  [method |-> "GET", url |-> client.base_url \o "/status", json |-> JNull,
   timeout |-> client.timeout]

StatusFailure(desc) ==
  JObj(("error" :> JStr("Cannot connect to Freeplane bridge")) @@
       ("details" :> JStr(desc)) @@
       ("hint" :> JStr("Make sure Freeplane is running and the FreeplaneHttpBridge.groovy script is executed")))

\* check_connection: one GET /status; the decoded body, or the failure object.
check_connection(client, outcome) ==
  [request |-> StatusRequest(client),
   result  |-> IF outcome.kind = "ok" THEN outcome.json ELSE StatusFailure(outcome.desc)]

\* Variant: node_id taken out of the forwarded params.
ExecuteParamsNoNodeId(params) ==
  IF params.k = "obj"
  THEN JObj([key \in DOMAIN params.f \ {"node_id"} |-> params.f[key]])
  ELSE JObj(EmptyMap)

\* params or {}
ExecuteParams(params) == IF Truthy(params) THEN params ELSE JObj(EmptyMap)

ExecuteRequest(client, command, params) ==
  [method |-> "POST", url |-> client.base_url \o "/execute",
   json |-> JObj(("command" :> JStr(command)) @@ ("params" :> ExecuteParams(params))),
   timeout |-> client.timeout]

\* Variant: execute reporting a failure the way check_connection does.
ExecuteFailureWithDetails(desc) ==
  JObj(("error" :> JStr("Cannot connect to Freeplane bridge")) @@ ("details" :> JStr(desc)))

ExecuteFailure(desc) == JObj("error" :> JStr(desc))

\* execute: one POST /execute; the decoded body, or {"error": str(e)}.
execute(client, command, params, outcome) ==
  [request |-> ExecuteRequest(client, command, params),
   result  |-> IF outcome.kind = "ok" THEN outcome.json ELSE ExecuteFailure(outcome.desc)]

\* ------------------------------------------------------------- the catalog

\* The names of the Tool definitions list_tools returns, in its order.
list_tools ==
  << "check_connection", "get_map_info", "get_selected_node", "select_node",
     "navigate_to_parent", "navigate_to_child", "create_child_node",
     "create_sibling_node", "set_node_text", "delete_node", "set_node_color",
     "set_background_color", "set_node_style", "set_font_formatting", "add_icon",
     "remove_icon", "list_icons", "add_connector", "remove_connector",
     "set_node_attribute", "get_node_attributes", "set_node_note", "get_node_note",
     "fold_node", "unfold_node", "center_on_node", "find_nodes" >>

CatalogNames == { list_tools[i] : i \in 1..Len(list_tools) }

command_map ==
  ("get_map_info" :> "get_map_info") @@
  ("get_selected_node" :> "get_selected_node") @@
  ("select_node" :> "select_node") @@
  ("navigate_to_parent" :> "navigate_to_parent") @@
  ("navigate_to_child" :> "navigate_to_child") @@
  ("create_child_node" :> "create_child") @@
  ("create_sibling_node" :> "create_sibling") @@
  ("set_node_text" :> "set_node_text") @@
  ("delete_node" :> "delete_node") @@
  ("set_node_color" :> "set_node_color") @@
  ("set_background_color" :> "set_background_color") @@
  ("set_node_style" :> "set_node_style") @@
  ("add_icon" :> "add_icon") @@
  ("remove_icon" :> "remove_icon") @@
  ("list_icons" :> "list_icons") @@
  ("add_connector" :> "add_connector") @@
  ("remove_connector" :> "remove_connector") @@
  ("set_node_attribute" :> "set_attribute") @@
  ("get_node_attributes" :> "get_attributes") @@
  ("set_node_note" :> "set_note") @@
  ("get_node_note" :> "get_note") @@
  ("fold_node" :> "fold_node") @@
  ("unfold_node" :> "unfold_node") @@
  ("center_on_node" :> "center_on_node") @@
  ("find_nodes" :> "find_nodes")

\* Variant: command_map.get(name, name), the tool name as the default command.
CommandForOrName(name) == IF name \in DOMAIN command_map THEN command_map[name] ELSE name

\* Variant: the lookup of a map that lacks the last catalog entry.
CommandForWithoutFindNodes(name) ==
  IF name \in DOMAIN command_map \ {"find_nodes"} THEN command_map[name] ELSE ""

\* command_map.get(name): the mapped command, "" standing for None.
CommandFor(name) == IF name \in DOMAIN command_map THEN command_map[name] ELSE ""

UnknownTool(name) == JObj("error" :> JStr("Unknown tool: " \o name))

\* Variant: the except clause's object without the tool name.
FaultResultNoTool(exc, name) == JObj("error" :> JStr(exc))

FaultResult(exc, name) == JObj(("error" :> JStr(exc)) @@ ("tool" :> JStr(name)))

\* Variant: the italic block placed before the bold block.
FontAttrsItalicFirst ==
  << [key |-> "italic", command |-> "set_font_italic"],
     [key |-> "bold", command |-> "set_font_bold"],
     [key |-> "size", command |-> "set_font_size"] >>

\* The attributes of set_font_formatting in the order the code tests them, each
\* with the bridge command it expands to.
FontAttrs ==
  << [key |-> "bold", command |-> "set_font_bold"],
     [key |-> "italic", command |-> "set_font_italic"],
     [key |-> "size", command |-> "set_font_size"] >>

\* Variant: all(r.get("success") for r in results), without the filter.
RECURSIVE AllSuccessUnfiltered(_)
AllSuccessUnfiltered(rs) ==
  IF rs = <<>> THEN Ok(JBool(TRUE))
  ELSE LET got == PyGet(Head(rs), "success")
       IN IF got.raised THEN got
          ELSE IF ~Truthy(got.v) THEN Ok(JBool(FALSE))
          ELSE AllSuccessUnfiltered(Tail(rs))

\* all(r.get("success") for r in results if "success" in r): evaluated left to
\* right, stopping at the first falsy value (all) or the first exception.
RECURSIVE AllSuccess(_)
AllSuccess(rs) ==
  IF rs = <<>> THEN Ok(JBool(TRUE))
  ELSE LET r == Head(rs)
           has == PyIn("success", r)
       IN IF has.raised THEN has
          ELSE IF ~Truthy(has.v) THEN AllSuccess(Tail(rs))
          ELSE LET got == PyGet(r, "success")
               IN IF got.raised THEN got
                  ELSE IF ~Truthy(got.v) THEN Ok(JBool(FALSE))
                  ELSE AllSuccess(Tail(rs))

\* The composite's document: {"results": results, "success": all(...)}. The dict
\* display evaluates "results" first, then the all(...).
Aggregate(rs) ==
  LET flag == AllSuccess(rs)
  IN IF flag.raised THEN flag
     ELSE Ok(JObj(("results" :> JList(rs)) @@ ("success" :> flag.v)))

\* ------------------------------------------------------------------ inputs

ToolNames == CatalogNames \cup {"bogus_tool", ""}

ArgKeys == {"node_id", "bold", "italic", "size", "text"}

ArgValue(key) ==
  CASE key = "node_id" -> JStr("ID_1")
    [] key = "bold"    -> JBool(TRUE)
    [] key = "italic"  -> JBool(FALSE)
    [] key = "size"    -> JNum("14")
    [] key = "text"    -> JStr("hi")

MappingArgs == { JObj([key \in S |-> ArgValue(key)]) : S \in SUBSET ArgKeys }

\* Argument values that are no mapping: a missing value (None) and other JSON.
OtherArgs == { JNull, JNum("0"), JStr("bold"), JList(<<>>), JList(<<JStr("bold")>>) }

ArgValues == MappingArgs \cup OtherArgs

\* The smaller inputs of the interleaved specification.
ConcNames == {"check_connection", "set_font_formatting", "set_node_text", "bogus_tool"}

ConcArgs == { JNull, JObj([key \in {"bold", "italic"} |-> ArgValue(key)]) }

ConcOutcomes ==
  { o \in TransportFailures : o.kind = "refused" } \cup
  { Response(JObj("success" :> JBool(TRUE))), Response(JNull) }

\* ------------------------------------------------------------------- state

VARIABLES
  freeplane,     \* the global FreeplaneClient instance
  pc,            \* per task: where its call_tool invocation stands
  name,          \* per task: call_tool's name
  arguments,     \* per task: call_tool's arguments
  results,       \* per task: the composite's results list
  http,          \* per task: the HTTP round trips made so far, each with its outcome
  caught,        \* per task: the exception the except clause caught, if any
  returned,      \* per task: the list of TextContent call_tool returned
  failedBefore   \* whether a call that ended in an error object has been served

vars == <<freeplane, pc, name, arguments, results, http, caught, returned, failedBefore>>

NoException == [raised |-> FALSE, exc |-> ""]

Exception(msg) == [raised |-> TRUE, exc |-> msg]

\* TextContent(type="text", text=json.dumps(doc, indent=2)): the block carries the
\* document doc.
TextContent(doc) == [type |-> "text", text |-> doc]

Init ==
  /\ freeplane = FreeplaneClient
  /\ pc = [c \in Tasks |-> "Idle"]
  /\ name = [c \in Tasks |-> ""]
  /\ arguments = [c \in Tasks |-> JNull]
  /\ results = [c \in Tasks |-> <<>>]
  /\ http = [c \in Tasks |-> <<>>]
  /\ caught = [c \in Tasks |-> NoException]
  /\ returned = [c \in Tasks |-> <<>>]
  /\ failedBefore = FALSE

\* Variant: one results list shared by every invocation.
ResultsShared(c) == 1

\* The frame that holds task c's results list: its own (results is a local).
ResultsOf(c) == c

\* return [TextContent(...)] on the normal paths.
Return(c, doc) ==
  /\ returned' = [returned EXCEPT ![c] = <<TextContent(doc)>>]
  /\ caught' = caught
  /\ pc' = [pc EXCEPT ![c] = "Enveloped"]

\* except Exception as e: return [TextContent({"error": str(e), "tool": name})].
Except(c, exc) ==
  /\ caught' = [caught EXCEPT ![c] = Exception(exc)]
  /\ returned' = [returned EXCEPT ![c] = <<TextContent(FaultResult(exc, name[c]))>>]
  /\ pc' = [pc EXCEPT ![c] = "Enveloped"]

Exchange(request, outcome) == [request |-> request, outcome |-> outcome]

\* The host hands a call to call_tool.
Receive(c, names, args) ==
  /\ pc[c] = "Idle"
  /\ \E n \in names, a \in args :
       /\ name' = [name EXCEPT ![c] = n]
       /\ arguments' = [arguments EXCEPT ![c] = a]
  /\ pc' = [pc EXCEPT ![c] = "Received"]
  /\ UNCHANGED <<freeplane, results, http, caught, returned, failedBefore>>

\* name == "check_connection": freeplane.check_connection() and return.
CheckConnection(c, outcomes) ==
  /\ pc[c] = "Received"
  /\ name[c] = "check_connection"
  /\ \E o \in outcomes :
       LET call == check_connection(freeplane, o)
       IN /\ http' = [http EXCEPT ![c] = Append(@, Exchange(call.request, o))]
          /\ Return(c, call.result)
  /\ UNCHANGED <<freeplane, name, arguments, results, failedBefore>>

FontPc == <<"Received", "Italic", "Size", "Aggregate">>

\* One attribute block of set_font_formatting: if key in arguments, execute the
\* attribute's command with node_id and the attribute, append the result.
FontAttr(c, i, outcomes) ==
  /\ pc[c] = FontPc[i]
  /\ name[c] = "set_font_formatting"
  /\ LET key == FontAttrs[i].key
         a == arguments[c]
         slot == ResultsOf(c)
         sofar == IF i = 1 THEN <<>> ELSE results[slot]
         present == PyIn(key, a)
         node_id == PyGet(a, "node_id")
         value == PyItem(a, key)
     IN IF present.raised
        THEN Except(c, present.exc) /\ results' = [results EXCEPT ![slot] = sofar]
                                    /\ UNCHANGED http
        ELSE IF ~Truthy(present.v)
        THEN /\ pc' = [pc EXCEPT ![c] = FontPc[i + 1]]
             /\ results' = [results EXCEPT ![slot] = sofar]
             /\ UNCHANGED <<http, caught, returned>>
        ELSE IF node_id.raised
        THEN Except(c, node_id.exc) /\ results' = [results EXCEPT ![slot] = sofar]
                                    /\ UNCHANGED http
        ELSE IF value.raised
        THEN Except(c, value.exc) /\ results' = [results EXCEPT ![slot] = sofar]
                                  /\ UNCHANGED http
        ELSE \E o \in outcomes :
               LET params == JObj(("node_id" :> node_id.v) @@ (key :> value.v))
                   call == execute(freeplane, FontAttrs[i].command, params, o)
               IN /\ http' = [http EXCEPT ![c] = Append(@, Exchange(call.request, o))]
                  /\ results' = [results EXCEPT ![slot] = Append(sofar, call.result)]
                  /\ pc' = [pc EXCEPT ![c] = FontPc[i + 1]]
                  /\ UNCHANGED <<caught, returned>>
  /\ UNCHANGED <<freeplane, name, arguments, failedBefore>>

FontBold(c, outcomes) == FontAttr(c, 1, outcomes)

FontItalic(c, outcomes) == FontAttr(c, 2, outcomes)

FontSize(c, outcomes) == FontAttr(c, 3, outcomes)

\* The composite's return: the results and the aggregated success flag.
FontReturn(c) ==
  /\ pc[c] = "Aggregate"
  /\ LET doc == Aggregate(results[ResultsOf(c)])
     IN IF doc.raised THEN Except(c, doc.exc) ELSE Return(c, doc.v)
  /\ UNCHANGED <<freeplane, name, arguments, results, http, failedBefore>>

Ordinary(c) ==
  /\ pc[c] = "Received"
  /\ name[c] \notin {"check_connection", "set_font_formatting"}

\* command = command_map.get(name); if not command: the Unknown tool object.
UnknownToolReturn(c) ==
  /\ Ordinary(c)
  /\ CommandFor(name[c]) = ""
  /\ Return(c, UnknownTool(name[c]))
  /\ UNCHANGED <<freeplane, name, arguments, results, http, failedBefore>>

\* result = freeplane.execute(command, arguments) and return.
Execute(c, outcomes) ==
  /\ Ordinary(c)
  /\ CommandFor(name[c]) # ""
  /\ \E o \in outcomes :
       LET call == execute(freeplane, CommandFor(name[c]), arguments[c], o)
       IN /\ http' = [http EXCEPT ![c] = Append(@, Exchange(call.request, o))]
          /\ Return(c, call.result)
  /\ UNCHANGED <<freeplane, name, arguments, results, failedBefore>>

IsErrorDoc(doc) == doc.k = "obj" /\ "error" \in DOMAIN doc.f

\* The host takes the returned content; the invocation's frame is gone.
Deliver(c) ==
  /\ pc[c] = "Enveloped"
  /\ failedBefore' = (failedBefore \/ IsErrorDoc(returned[c][1].text))
  /\ pc' = [pc EXCEPT ![c] = "Idle"]
  /\ name' = [name EXCEPT ![c] = ""]
  /\ arguments' = [arguments EXCEPT ![c] = JNull]
  /\ results' = [results EXCEPT ![c] = <<>>]
  /\ http' = [http EXCEPT ![c] = <<>>]
  /\ caught' = [caught EXCEPT ![c] = NoException]
  /\ returned' = [returned EXCEPT ![c] = <<>>]
  /\ UNCHANGED freeplane

\* call_tool has no await: on the event loop one invocation runs at a time.
Quiet(c) == \A d \in Tasks \ {c} : pc[d] = "Idle"

Next ==
  \E c \in Tasks :
    \/ Quiet(c) /\ Receive(c, ToolNames, ArgValues)
    \/ CheckConnection(c, Outcomes)
    \/ FontBold(c, Outcomes)
    \/ FontItalic(c, Outcomes)
    \/ FontSize(c, Outcomes)
    \/ FontReturn(c)
    \/ UnknownToolReturn(c)
    \/ Execute(c, Outcomes)
    \/ Deliver(c)

Spec == Init /\ [][Next]_vars

\* A host that runs invocations on independent threads: their steps interleave.
NextConc ==
  \E c \in Tasks :
    \/ Receive(c, ConcNames, ConcArgs)
    \/ CheckConnection(c, ConcOutcomes)
    \/ FontBold(c, ConcOutcomes)
    \/ FontItalic(c, ConcOutcomes)
    \/ FontSize(c, ConcOutcomes)
    \/ FontReturn(c)
    \/ UnknownToolReturn(c)
    \/ Execute(c, ConcOutcomes)
    \/ Deliver(c)

SpecConc == Init /\ [][NextConc]_vars

\* ================================================================== claims

Doc(c) == returned[c][1].text

Requests(c) == [i \in 1..Len(http[c]) |-> http[c][i].request]

OutcomesOf(c) == [i \in 1..Len(http[c]) |-> http[c][i].outcome]

InFlight(c) == pc[c] \in {"Received", "Italic", "Size", "Aggregate"}

StepWith(c, outcomes) ==
  \/ CheckConnection(c, outcomes)
  \/ FontBold(c, outcomes)
  \/ FontItalic(c, outcomes)
  \/ FontSize(c, outcomes)
  \/ FontReturn(c)
  \/ UnknownToolReturn(c)
  \/ Execute(c, outcomes)

Step(c) == StepWith(c, Outcomes)

IsExecute(request) ==
  /\ request.method = "POST"
  /\ request.url = "http://localhost:8765/execute"

IsStatus(request) ==
  /\ request.method = "GET"
  /\ request.url = "http://localhost:8765/status"
  /\ request.json = JNull

\* C1: whatever the tool name, the argument value and the bridge's responses, an
\* invocation in progress can always take its next step, returns nothing before it
\* is enveloped, and is enveloped with exactly one text block; when the except
\* clause caught an exception, that block is the object holding the exception's
\* description under "error" and the tool name under "tool", and nothing else.
C1_OneResultNoEscape ==
  \A c \in Tasks :
    /\ InFlight(c) => (returned[c] = <<>> /\ ENABLED Step(c))
    /\ pc[c] = "Enveloped" =>
         /\ Len(returned[c]) = 1
         /\ returned[c][1].type = "text"
         /\ caught[c].raised =>
              /\ Doc(c).k = "obj"
              /\ DOMAIN Doc(c).f = {"error", "tool"}
              /\ Doc(c).f["error"] = JStr(caught[c].exc)
              /\ Doc(c).f["tool"] = JStr(name[c])

\* A composite call whose aggregation raised on a bridge response that is no
\* object, after its sub-calls were made.
C1_Witness ==
  \E c \in Tasks :
    /\ pc[c] = "Enveloped"
    /\ caught[c].raised
    /\ Len(http[c]) = 2
    /\ Doc(c).f["tool"] = JStr("set_font_formatting")

Registered == {"check_connection", "set_font_formatting"} \cup DOMAIN command_map

\* C2: a call whose name is neither check_connection, nor set_font_formatting, nor
\* a key of command_map returns exactly {"error": "Unknown tool: <name>"} and makes
\* no bridge request, neither GET /status nor POST /execute.
C2_UnknownTool ==
  \A c \in Tasks :
    (name[c] \notin Registered /\ pc[c] \in {"Received", "Enveloped"}) =>
      /\ http[c] = <<>>
      /\ pc[c] = "Enveloped" =>
           /\ returned[c] = <<[type |-> "text", text |-> Doc(c)]>>
           /\ Doc(c).k = "obj"
           /\ DOMAIN Doc(c).f = {"error"}
           /\ Doc(c).f["error"] = JStr("Unknown tool: " \o name[c])

C2_Witness ==
  \E c \in Tasks :
    /\ pc[c] = "Enveloped"
    /\ name[c] = "bogus_tool"
    /\ arguments[c] \in MappingArgs
    /\ Doc(c).f["error"] = JStr("Unknown tool: bogus_tool")

\* ---- the composite tool

Composite(c) == name[c] = "set_font_formatting" /\ arguments[c] \in MappingArgs

\* The attribute keys in the order of the claim, and how many of the blocks have
\* run at each point of the call.
KeyOrder == <<"bold", "italic", "size">>

BlocksRun(c) ==
  CASE pc[c] = "Received" -> 0
    [] pc[c] = "Italic" -> 1
    [] pc[c] = "Size" -> 2
    [] OTHER -> Len(KeyOrder)

RECURSIVE PresentKeys(_, _)
PresentKeys(args, n) ==
  IF n = 0 THEN <<>>
  ELSE IF KeyOrder[n] \in DOMAIN args.f
       THEN Append(PresentKeys(args, n - 1), KeyOrder[n])
       ELSE PresentKeys(args, n - 1)

\* The sub-call for one present key: POST /execute with the key's command and, as
\* params, node_id (null when the caller gave none) and that attribute alone.
SubCall(args, key) ==
  [method |-> "POST", url |-> "http://localhost:8765/execute", timeout |-> 10,
   json |-> JObj(("command" :> JStr("set_font_" \o key)) @@
                 ("params" :> JObj(("node_id" :> (IF "node_id" \in DOMAIN args.f
                                                  THEN args.f["node_id"] ELSE JNull)) @@
                                   (key :> args.f[key]))))]

\* What execute returns for an outcome of the round trip.
SubResult(outcome) ==
  IF outcome.kind = "ok" THEN outcome.json ELSE JObj("error" :> JStr(outcome.desc))

IsAggregate(doc) == doc.k = "obj" /\ DOMAIN doc.f = {"results", "success"}

SubCallsInOrder(c) ==
  LET keys == PresentKeys(arguments[c], BlocksRun(c))
  IN /\ Requests(c) = [i \in 1..Len(keys) |-> SubCall(arguments[c], keys[i])]
     /\ pc[c] # "Enveloped" =>
          results[c] = [i \in 1..Len(keys) |-> SubResult(http[c][i].outcome)]

HasSuccess(r) == r.k = "obj" /\ "success" \in DOMAIN r.f

AggregateReturned(c) ==
  /\ name[c] = "set_font_formatting"
  /\ pc[c] = "Enveloped"
  /\ ~caught[c].raised

SubCallSucceeded(x) == x.outcome = Response(JObj("success" :> JBool(TRUE)))

SubCallFailed(x) ==
  \/ x.outcome.kind # "ok"
  \/ /\ HasSuccess(x.outcome.json)
     /\ x.outcome.json.f["success"] = JBool(FALSE)

\* C5: in a set_font_formatting call where every sub-call succeeded or failed (the
\* bridge reported success = false, or the transport failed), at least one of each,
\* every sub-result is returned in results and the aggregated success flag is false.
C5_PartialFailure ==
  \A c \in Tasks :
    ( /\ Composite(c) /\ pc[c] = "Enveloped"
      /\ \A i \in 1..Len(http[c]) : SubCallSucceeded(http[c][i]) \/ SubCallFailed(http[c][i])
      /\ \E i \in 1..Len(http[c]) : SubCallSucceeded(http[c][i])
      /\ \E i \in 1..Len(http[c]) : SubCallFailed(http[c][i]) ) =>
      /\ IsAggregate(Doc(c))
      /\ Doc(c).f["results"].l = [i \in 1..Len(http[c]) |-> SubResult(http[c][i].outcome)]
      /\ Doc(c).f["success"] = JBool(FALSE)

\* ---- ordinary tools

\* C6: for a tool of command_map called with a mapping as arguments, the one bridge
\* request is POST /execute whose params equal the caller's arguments, no key
\* renamed, dropped or added, and whose command is the command_map entry of the
\* tool name.
C6_ArgumentsForwarded ==
  \A c \in Tasks :
    ( /\ pc[c] = "Enveloped"
      /\ name[c] \in DOMAIN command_map
      /\ arguments[c] \in MappingArgs ) =>
      /\ Len(http[c]) = 1
      /\ IsExecute(http[c][1].request)
      /\ DOMAIN http[c][1].request.json.f = {"command", "params"}
      /\ http[c][1].request.json.f["params"] = arguments[c]
      /\ http[c][1].request.json.f["command"] = JStr(command_map[name[c]])

\* A tool whose command differs from its name, called with node_id and text.
C6_Witness ==
  \E c \in Tasks :
    /\ pc[c] = "Enveloped"
    /\ name[c] = "create_child_node"
    /\ DOMAIN arguments[c].f = {"node_id", "text"}
    /\ http[c][1].request.json.f["command"] = JStr("create_child")
    /\ http[c][1].request.json.f["params"].f["node_id"] = JStr("ID_1")

\* C7: every name of the catalog list_tools returns is check_connection,
\* set_font_formatting or a key of command_map, and no call of a catalog name ends
\* in the "Unknown tool" result.
C7_CatalogComplete ==
  /\ \A i \in 1..Len(list_tools) :
       list_tools[i] \in {"check_connection", "set_font_formatting"} \cup DOMAIN command_map
  /\ \A c \in Tasks :
       (pc[c] = "Enveloped" /\ name[c] \in CatalogNames) =>
         Doc(c) # JObj("error" :> JStr("Unknown tool: " \o name[c]))

\* The last catalog entry, served by the bridge.
C7_Witness ==
  \E c \in Tasks :
    /\ pc[c] = "Enveloped"
    /\ name[c] = list_tools[Len(list_tools)]
    /\ Len(http[c]) = 1
    /\ Doc(c) = JObj("success" :> JBool(TRUE))

\* C8: a check_connection call, whatever its arguments, makes no POST /execute
\* request: its only bridge request is one GET /status, and it returns that
\* check's result: the decoded body, or on a transport failure the object with
\* error, details (the failure description) and hint.
C8_CheckConnection ==
  \A c \in Tasks :
    name[c] = "check_connection" =>
      /\ \A i \in 1..Len(http[c]) : ~IsExecute(http[c][i].request)
      /\ pc[c] = "Received" => http[c] = <<>>
      /\ pc[c] = "Enveloped" =>
           /\ Len(http[c]) = 1
           /\ IsStatus(http[c][1].request)
           /\ ~caught[c].raised
           /\ IF http[c][1].outcome.kind = "ok"
              THEN Doc(c) = http[c][1].outcome.json
              ELSE /\ Doc(c).k = "obj"
                   /\ DOMAIN Doc(c).f = {"error", "details", "hint"}
                   /\ Doc(c).f["error"] = JStr("Cannot connect to Freeplane bridge")
                   /\ Doc(c).f["details"] = JStr(http[c][1].outcome.desc)

\* check_connection called with font arguments, the bridge answering.
C8_Witness ==
  \E c \in Tasks :
    /\ pc[c] = "Enveloped"
    /\ name[c] = "check_connection"
    /\ "bold" \in DOMAIN arguments[c].f
    /\ http[c][1].outcome.kind = "ok"
    /\ Doc(c) = JObj("success" :> JBool(TRUE))

\* C9: when the transport fails during a call of a command_map tool, the call has
\* made exactly one execute request, caught no exception, and returns the object
\* whose only member is error, holding the failure description.
C9_TransportFailure ==
  \A c \in Tasks :
    ( /\ pc[c] = "Enveloped"
      /\ name[c] \in DOMAIN command_map
      /\ \E i \in 1..Len(http[c]) : http[c][i].outcome.kind # "ok" ) =>
      /\ Len(http[c]) = 1
      /\ IsExecute(http[c][1].request)
      /\ ~caught[c].raised
      /\ Len(returned[c]) = 1
      /\ Doc(c).k = "obj"
      /\ DOMAIN Doc(c).f = {"error"}
      /\ Doc(c).f["error"] = JStr(http[c][1].outcome.desc)

C9_Witness ==
  \E c \in Tasks :
    /\ pc[c] = "Enveloped"
    /\ name[c] = "set_node_text"
    /\ http[c][1].outcome.kind = "refused"
    /\ Doc(c) = JObj("error" :> JStr("Connection refused"))

\* ---- calls side by side

SameCall(c, d) ==
  /\ name[c] = name[d]
  /\ arguments[c] = arguments[d]
  /\ OutcomesOf(c) = OutcomesOf(d)

\* C10: with invocations interleaved in any way and whatever calls were served
\* before, an idle task can always be handed a call; two invocations with the same
\* name, the same arguments and the same bridge responses to their own requests
\* made the same requests and return the same result; and a composite's results
\* are the results of its own sub-calls, in its own order.
C10_NoSharedState ==
  /\ freeplane = [base_url |-> "http://localhost:8765", timeout |-> 10]
  /\ \A c \in Tasks :
       /\ pc[c] = "Idle" => ENABLED Receive(c, ConcNames, ConcArgs)
       /\ InFlight(c) => ENABLED StepWith(c, ConcOutcomes)
       /\ (name[c] = "set_font_formatting" /\ pc[c] = "Enveloped" /\ ~caught[c].raised) =>
            Doc(c).f["results"].l = [i \in 1..Len(http[c]) |-> SubResult(http[c][i].outcome)]
  /\ \A c, d \in Tasks :
       (pc[c] = "Enveloped" /\ pc[d] = "Enveloped" /\ SameCall(c, d)) =>
         /\ Requests(c) = Requests(d)
         /\ returned[c] = returned[d]

\* After a failed call was served, two interleaved composite calls, one of them
\* with a refused sub-call, each returning its own two results.
C10_Witness ==
  /\ failedBefore
  /\ \E c, d \in Tasks :
       /\ c # d
       /\ pc[c] = "Enveloped" /\ pc[d] = "Enveloped"
       /\ name[c] = "set_font_formatting" /\ name[d] = "set_font_formatting"
       /\ Len(http[c]) = 2 /\ Len(http[d]) = 2
       /\ http[c][1].outcome.kind = "refused"
       /\ http[d][1].outcome.kind = "ok"
       /\ ~caught[c].raised /\ ~caught[d].raised
       /\ Doc(c) # Doc(d)

====
